---- MODULE Spec2Model ----
(***************************************************************************)
(* Model of the module dependency graph builder (common/graph.py) and of   *)
(* the context extraction engine (common/odoo_context.py) of               *)
(* odev-plugin-ai.                                                         *)
(*                                                                         *)
(* Spec        : graph.build_dependency_tree, one action per iteration of  *)
(*               its work-queue loop, followed by the ordering and the     *)
(*               path resolution of OdooContext._build_dependency_info.    *)
(*               build_dependency_tree takes (process, modules) only; the  *)
(*               call of odoo_context.py:78 passes max_level= and is       *)
(*               rejected by that signature (action CallWithMaxLevel);     *)
(*               the steps after the call are modelled on the graph the    *)
(*               builder returns when it is called with its own signature. *)
(*               The file system is a read-only input: what a lookup or a  *)
(*               read returns is drawn when the code first performs it and *)
(*               is remembered from then on.                               *)
(* SpecExtract : the extraction loop of OdooContext.gather_context         *)
(*               (odoo_context.py:110-165) on an ordered module list and   *)
(*               its resolved paths, one action per step of the loop head  *)
(*               and per category pass.                                    *)
(* SpecPasses  : one category pass of OdooContext alone (_gather_models,    *)
(*               _gather_views, _gather_assets, _gather_data) on a module  *)
(*               directory drawn from bounded sets, one action per file.   *)
(* SpecResolve : graph._get_module_path called repeatedly on one file      *)
(*               system.                                                   *)
(* SpecLLM     : LLM.completion (common/llm.py), one action per attempt.   *)
(***************************************************************************)
EXTENDS Integers, Sequences, FiniteSets, TLC

\* ------------------------------------------------------------------ bounds
MaxSeeds == 2
MaxDeps  == 1
MaxQueue == 8
MaxMarks == 2
MaxFiles == 1

\* ---------------------------------------------------------------- universe
Names == {"sale", "base", "mail"}
Roots == {1, 2}
NoPath == 0
NoLevel == -1
Levels == {0, 1}

SeqsUpTo(S, n) == UNION {[1..k -> S] : k \in 0..n}

Range(s) == {s[i] : i \in 1..Len(s)}

\* What the file __manifest__.py of a module directory holds.
\*   notfile    : the path exists but is not a regular file
\*   unreadable : read_text raises OSError (PermissionError, I/O error)
\*   undecodable: read_text raises UnicodeDecodeError (a ValueError)
\*   syntax     : ast.parse raises SyntaxError
\*   nodict     : the parsed tree holds no dictionary literal
\*   nonliteral : the dictionary holds a non-literal expression
\*   dict       : a literal dictionary; hasDepends tells whether it has the
\*                key "depends", depends is the value of that key
ManifestKinds == {"notfile", "unreadable", "undecodable", "syntax", "nodict", "nonliteral", "dict"}

ManifestFiles ==
    {[kind |-> k, hasDepends |-> FALSE, depends |-> <<>>] : k \in ManifestKinds}
    \cup {[kind |-> "dict", hasDepends |-> TRUE, depends |-> d] : d \in SeqsUpTo(Names, MaxDeps)}

\* last_read when the current iteration read no manifest
NoRead == [module |-> "", file |-> [kind |-> "unread", hasDepends |-> FALSE, depends |-> <<>>]]

\* The addon roots a module directory can lie in
AddonChoices == {{}, Roots}

VARIABLES
    modules,        \* the seed list handed to build_dependency_tree
    max_level,      \* the max_level keyword of the call, NoLevel when the call passes none
    pc,             \* position of the program
    to_process,     \* the work queue of build_dependency_tree
    processed,      \* the processed set of build_dependency_tree
    nodes,          \* graph nodes, in insertion order
    edges,          \* graph edges <<dependency, dependent>>, in insertion order
    addons,         \* file system: addons[m] = the roots in which m is a module directory with a manifest
    depends_of,     \* file system: the dependencies taken from the manifest of m when it was read
    last_read,      \* the manifest file read in the current iteration (local variable manifest)
    marks,          \* marks[m]: how many times m was marked processed (history)
    reads,          \* reads[m]: how many times the manifest of m was read by the builder (history)
    enqueued,       \* names ever put on the work queue (history)
    error,          \* the exception that left the program, "none" when there is none
    log,            \* the set of log records <<level, event, module>>
    sorted_modules, \* _build_dependency_info: the ordered module list
    module_paths,   \* _build_dependency_info: module_paths, NoPath for an absent key
    analysis,       \* gather_context: the categories for which the analysis holds criteria
    context,        \* gather_context: context[module][category], a list of artifacts
    context_keys,   \* gather_context: the module keys of context, in insertion order
    idx,            \* gather_context: position of the loop in sorted_modules
    stage,          \* gather_context: 0 at the loop head, else the pass to run next
    files_seen,     \* file system: how many files the passes have handled so far
    visits          \* visits[m]: how many times the passes were started for m (history)

VARIABLES
    pass_category,   \* _gather_*: the category pass under way, "" when none is
    module_name,     \* _gather_*: the module the pass works on
    override_module, \* the override module name the caller wants force-included, "" for none
    criteria,        \* _gather_*: what the analysis requests for the category
    loaded_py_files, \* _gather_models: the files named by the initializer that exist
    module_dir,      \* file system: the part of the module directory the pass iterates over
    scanned,         \* file system: the files the pass has read so far, in order (history)
    pass_list,       \* _gather_*: context[module_name][category]
    tree,            \* file system: tree[r] = what root r holds under the module name
    resolved,        \* the results of the calls of _get_module_path so far (history)
    model,           \* LLM.model
    provider,        \* LLM.provider
    llm_order,       \* LLM.llm_order
    model_list,      \* LLM.completion: model_list
    attempts,        \* LLM.completion: the attempts made so far, <<model, outcome>> (history)
    result           \* LLM.completion: the value returned, NotReturned before the return

\* the variables of a single category pass
pvars == <<pass_category, module_name, override_module, criteria, loaded_py_files, module_dir,
           scanned, pass_list>>

\* the variables of the addon resolver
rvars == <<tree, resolved>>

\* the variables of the LLM client
lvars == <<model, provider, llm_order, model_list, attempts, result>>

nvars == <<pvars, rvars, lvars>>

\* the variables of the graph builder and of _build_dependency_info
gvars == <<modules, max_level, to_process, processed, nodes, edges, addons, depends_of,
           last_read, marks, reads, enqueued>>

\* the variables of the extraction loop
xvars == <<analysis, context, context_keys, idx, stage, files_seen, visits>>

vars == <<pc, error, log, sorted_modules, module_paths, gvars, xvars, nvars>>

\* result before LLM.completion has returned
NotReturned == "not returned"

\* the values the variables of a component hold while another component is under study
IdlePass ==
    /\ pass_category = ""
    /\ module_name = ""
    /\ override_module = ""
    /\ criteria = {}
    /\ loaded_py_files = <<>>
    /\ module_dir = <<>>
    /\ scanned = <<>>
    /\ pass_list = <<>>

IdleResolve ==
    /\ tree = <<>>
    /\ resolved = <<>>

IdleLLM ==
    /\ model = ""
    /\ provider = ""
    /\ llm_order = <<>>
    /\ model_list = <<>>
    /\ attempts = <<>>
    /\ result = NotReturned

IdleNew == IdlePass /\ IdleResolve /\ IdleLLM

\* ------------------------------------------------------- addon resolver
odoo_addons_paths == <<1, 2>>

\* graph._get_module_path: the first root, in list order, that holds the module
FirstMatch(paths, where) ==
    LET hits == {i \in 1..Len(paths) : paths[i] \in where}
    IN IF hits = {} THEN NoPath
       ELSE paths[CHOOSE i \in hits : \A j \in hits : i <= j]

_get_module_path(where) == FirstMatch(odoo_addons_paths, where)

\* ------------------------------------------------------- manifest reader
\* graph._read_manifest: "raise" when an exception leaves the function,
\* "none" when it returns None, "dict" when it returns the dictionary
_read_manifest(f) ==
    IF f.kind = "notfile" THEN "none"
    ELSE IF f.kind = "unreadable" THEN "raise"
    ELSE IF f.kind \in {"undecodable", "syntax", "nonliteral"} THEN "none"
    ELSE IF f.kind = "nodict" THEN "none"
    ELSE "dict"

\* logger.error of the except clause of _read_manifest (graph.py:44-45)
ManifestErrorLogged(f) == f.kind \in {"undecodable", "syntax", "nonliteral"}

\* the dependencies build_dependency_tree takes from what _read_manifest returned
\* (graph.py:97-98)
ManifestDepends(f) ==
    IF _read_manifest(f) = "dict" /\ f.hasDepends THEN f.depends ELSE <<>>

\* --------------------------------------------------------------- graph
\* nx.DiGraph.add_node: a node already present keeps its place
AddNode(ns, n) == IF n \in Range(ns) THEN ns ELSE Append(ns, n)

\* nx.DiGraph.add_edge(u, v): adds both end points as nodes, no parallel edges
AddEdge(g, u, v) ==
    [nodes |-> AddNode(AddNode(g.nodes, u), v),
     edges |-> IF <<u, v>> \in Range(g.edges) THEN g.edges ELSE Append(g.edges, <<u, v>>)]

\* faulty variant, used to test the properties: the edge points from the dependent to its dependency
DependencyEdgeReversed(g, dependency, m) == AddEdge(g, m, dependency)

\* graph.py:100, the edge of one dependency of module m
DependencyEdge(g, dependency, m) == AddEdge(g, dependency, m)

\* faulty variant, used to test the properties: the test of the processed set is inverted
ShouldEnqueueInverted(dependency, done) == dependency \in done

\* graph.py:101, whether a dependency is put on the work queue
ShouldEnqueue(dependency, done) == dependency \notin done

\* the loop over the dependencies of module m (graph.py:99-102)
RECURSIVE AddDependencies(_, _, _, _, _)
AddDependencies(deps, m, g, queue, done) ==
    IF deps = <<>> THEN [g |-> g, queue |-> queue]
    ELSE AddDependencies(Tail(deps), m, DependencyEdge(g, Head(deps), m),
                         IF ShouldEnqueue(Head(deps), done) THEN Append(queue, Head(deps)) ELSE queue,
                         done)

Init ==
    /\ modules \in SeqsUpTo(Names, MaxSeeds)
    /\ max_level = NoLevel
    /\ pc = "start"
    /\ to_process = <<>>
    /\ processed = {}
    /\ nodes = <<>>
    /\ edges = <<>>
    /\ addons = [m \in Names |-> {}]
    /\ depends_of = [m \in Names |-> <<>>]
    /\ last_read = NoRead
    /\ marks = [m \in Names |-> 0]
    /\ reads = [m \in Names |-> 0]
    /\ enqueued = {}
    /\ error = "none"
    /\ log = {}
    /\ sorted_modules = <<>>
    /\ module_paths = [m \in Names |-> NoPath]
    /\ analysis = {}
    /\ context = <<>>
    /\ context_keys = <<>>
    /\ idx = 1
    /\ stage = 0
    /\ files_seen = 0
    /\ visits = [m \in Names |-> 0]
    /\ IdleNew

\* graph.build_dependency_tree(process, modules): lines 79-81
CallBuild ==
    /\ pc = "start"
    /\ pc' = "loop"
    /\ to_process' = modules
    /\ enqueued' = Range(modules)
    /\ UNCHANGED <<modules, max_level, processed, nodes, edges, addons, depends_of, last_read,
                   marks, reads, error, log, sorted_modules, module_paths, xvars, nvars>>

\* graph.build_dependency_tree(process, initial_depends, max_level=dependency_level):
\* the function has no parameter max_level, the call raises TypeError
CallWithMaxLevel ==
    /\ pc = "start"
    /\ \E lvl \in Levels : max_level' = lvl
    /\ pc' = "raised"
    /\ error' = "TypeError"
    /\ UNCHANGED <<modules, to_process, processed, nodes, edges, addons, depends_of, last_read,
                   marks, reads, enqueued, log, sorted_modules, module_paths, xvars, nvars>>

\* the guard of every iteration: the loop runs while the queue is not empty
InLoop ==
    /\ pc = "loop"
    /\ to_process # <<>>
    /\ Len(to_process) <= MaxQueue
    /\ marks[Head(to_process)] < MaxMarks

\* faulty variant, used to test the properties: the processed set is not consulted when a name is dequeued
NeverProcessed(m) == FALSE

\* lines 85-86: the dequeued name is already processed
AlreadyProcessed(m) == m \in processed

LoopSkip ==
    /\ InLoop
    /\ AlreadyProcessed(Head(to_process))
    /\ to_process' = Tail(to_process)
    /\ last_read' = NoRead
    /\ UNCHANGED <<modules, max_level, pc, processed, nodes, edges, addons, depends_of,
                   marks, reads, enqueued, error, log, sorted_modules, module_paths, xvars, nvars>>

\* lines 84-94: the module is in no addon root
LoopNotFound ==
    /\ InLoop
    /\ LET m == Head(to_process) IN
        /\ ~AlreadyProcessed(m)
        /\ \E where \in AddonChoices :
            /\ _get_module_path(where) = NoPath
            /\ addons' = [addons EXCEPT ![m] = where]
        /\ processed' = processed \cup {m}
        /\ marks' = [marks EXCEPT ![m] = @ + 1]
        /\ nodes' = AddNode(nodes, m)
        /\ log' = log \cup {<<"warning", "not found", m>>}
        /\ to_process' = Tail(to_process)
    /\ last_read' = NoRead
    /\ UNCHANGED <<modules, max_level, pc, edges, depends_of, reads, enqueued, error,
                   sorted_modules, module_paths, xvars, nvars>>

\* lines 84-96: reading the manifest raises, the exception leaves the builder
LoopReadRaises ==
    /\ InLoop
    /\ LET m == Head(to_process) IN
        /\ ~AlreadyProcessed(m)
        /\ \E where \in AddonChoices :
            /\ _get_module_path(where) # NoPath
            /\ addons' = [addons EXCEPT ![m] = where]
        /\ \E f \in ManifestFiles :
            /\ _read_manifest(f) = "raise"
            /\ last_read' = [module |-> m, file |-> f]
        /\ processed' = processed \cup {m}
        /\ marks' = [marks EXCEPT ![m] = @ + 1]
        /\ reads' = [reads EXCEPT ![m] = @ + 1]
        /\ nodes' = AddNode(nodes, m)
        /\ to_process' = Tail(to_process)
    /\ pc' = "raised"
    /\ error' = "OSError"
    /\ UNCHANGED <<modules, max_level, edges, depends_of, enqueued, log, sorted_modules,
                   module_paths, xvars, nvars>>

\* lines 84-102: the manifest is read; its dependencies become edges and are enqueued
LoopExpand ==
    /\ InLoop
    /\ LET m == Head(to_process) IN
        /\ ~AlreadyProcessed(m)
        /\ \E where \in AddonChoices :
            /\ _get_module_path(where) # NoPath
            /\ addons' = [addons EXCEPT ![m] = where]
        /\ \E f \in ManifestFiles :
            /\ _read_manifest(f) # "raise"
            /\ last_read' = [module |-> m, file |-> f]
            /\ LET done == processed \cup {m}
                   r == AddDependencies(ManifestDepends(f), m,
                                        [nodes |-> AddNode(nodes, m), edges |-> edges],
                                        Tail(to_process), done)
               IN /\ processed' = done
                  /\ depends_of' = [depends_of EXCEPT ![m] = ManifestDepends(f)]
                  /\ nodes' = r.g.nodes
                  /\ edges' = r.g.edges
                  /\ to_process' = r.queue
                  /\ enqueued' = enqueued \cup Range(r.queue)
                  /\ log' = IF ManifestErrorLogged(f)
                            THEN log \cup {<<"error", "manifest", m>>} ELSE log
        /\ marks' = [marks EXCEPT ![m] = @ + 1]
        /\ reads' = [reads EXCEPT ![m] = @ + 1]
    /\ UNCHANGED <<modules, max_level, pc, error, sorted_modules, module_paths, xvars, nvars>>

\* lines 83, 104: the queue is empty, the graph is returned
LoopExit ==
    /\ pc = "loop"
    /\ to_process = <<>>
    /\ pc' = "built"
    /\ last_read' = NoRead
    /\ UNCHANGED <<modules, max_level, to_process, processed, nodes, edges, addons, depends_of,
                   marks, reads, enqueued, error, log, sorted_modules, module_paths, xvars, nvars>>

Build == CallBuild \/ CallWithMaxLevel \/ LoopSkip \/ LoopNotFound \/ LoopReadRaises
            \/ LoopExpand \/ LoopExit

\* ------------------------------------------------------------ ordering
\* G.neighbors(n): the successors of n in the order their edges were added
RECURSIVE Successors(_, _)
Successors(es, n) ==
    IF es = <<>> THEN <<>>
    ELSE IF Head(es)[1] = n THEN <<Head(es)[2]>> \o Successors(Tail(es), n)
    ELSE Successors(Tail(es), n)

InDegree(es, n) == Cardinality({i \in 1..Len(es) : es[i][2] = n})

\* the nodes without incoming edge, in node order
RECURSIVE ZeroInDegree(_, _)
ZeroInDegree(ns, es) ==
    IF ns = <<>> THEN <<>>
    ELSE IF InDegree(es, Head(ns)) = 0 THEN <<Head(ns)>> \o ZeroInDegree(Tail(ns), es)
    ELSE ZeroInDegree(Tail(ns), es)

\* the children visited while one generation is consumed, in visiting order
RECURSIVE ChildrenOf(_, _)
ChildrenOf(generation, es) ==
    IF generation = <<>> THEN <<>>
    ELSE Successors(es, Head(generation)) \o ChildrenOf(Tail(generation), es)

\* the inner loop of nx.topological_generations: each visit of a child
\* lowers its in-degree; a child that reaches zero joins the next generation
RECURSIVE Relax(_, _, _)
Relax(children, indegree, zero) ==
    IF children = <<>> THEN [indegree |-> indegree, zero |-> zero]
    ELSE LET c == Head(children)
             d == indegree[c] - 1
         IN Relax(Tail(children), [indegree EXCEPT ![c] = d],
                  IF d = 0 THEN Append(zero, c) ELSE zero)

\* the outer loop of nx.topological_generations; nodes left with a positive
\* in-degree make the sort raise NetworkXUnfeasible
RECURSIVE Generations(_, _, _, _)
Generations(zero, indegree, out, es) ==
    IF zero = <<>>
    THEN [order |-> out, feasible |-> \A n \in DOMAIN indegree : indegree[n] = 0]
    ELSE LET r == Relax(ChildrenOf(zero, es), indegree, <<>>)
         IN Generations(r.zero, r.indegree, out \o zero, es)

\* list(nx.topological_sort(G)) of the graph with nodes ns and edges es
TopologicalSort(ns, es) ==
    Generations(ZeroInDegree(ns, es), [n \in Range(ns) |-> InDegree(es, n)], <<>>, es)

\* faulty variant, used to test the properties: on a cycle the part of the order found so far is kept
OrderModulesPartial(ns, es) ==
    IF ns = <<>> THEN <<>> ELSE TopologicalSort(ns, es).order

\* odoo_context.py:79-86: the ordered module list of a graph
OrderModules(ns, es) ==
    IF ns = <<>> THEN <<>>
    ELSE IF TopologicalSort(ns, es).feasible THEN TopologicalSort(ns, es).order
    ELSE ns

\* odoo_context.py:84-85: the cycle is reported by logger.error
CycleLogged(ns, es) == ns # <<>> /\ ~TopologicalSort(ns, es).feasible

\* odoo_context.py:79-94, the part of _build_dependency_info after the builder
\* returned: order the graph, then look up the path of every ordered module
BuildInfo ==
    /\ pc = "built"
    /\ sorted_modules' = OrderModules(nodes, edges)
    /\ \E where \in [Range(nodes) \ processed -> AddonChoices] :
        /\ addons' = [m \in Names |-> IF m \in DOMAIN where THEN where[m] ELSE addons[m]]
        /\ module_paths' = [m \in Names |->
                              IF m \in Range(sorted_modules') THEN _get_module_path(addons'[m])
                              ELSE NoPath]
        /\ log' = log
                  \cup (IF CycleLogged(nodes, edges) THEN {<<"error", "cycle", "">>} ELSE {})
                  \cup {<<"warning", "no path", m>> : m \in
                           {n \in Range(sorted_modules') : _get_module_path(addons'[n]) = NoPath}}
    /\ pc' = "done"
    /\ UNCHANGED <<modules, max_level, to_process, processed, nodes, edges, depends_of, last_read,
                   marks, reads, enqueued, error, xvars, nvars>>

Next == Build \/ BuildInfo

Spec == Init /\ [][Next]_vars

\* ------------------------------------------------------------ extraction
\* the module names of the extraction runs
ExtractNames == {"sale", "crm", "base"}

\* odoo_context.py:113, the modules the loop never extracts
FoundationModules == {"base", "web", "mail", "utm"}

\* odoo_context.py:120-130, the keys of context[module_name] in the order of the literal
CategoryKeys == <<"models", "views", "controllers", "assets", "security", "reports",
                  "website", "data", "manifests">>

\* faulty variant, used to test the properties: the models pass is called before the manifest pass
PassOrderSwapped == <<"models", "manifests", "views", "controllers", "assets", "security",
                      "reports", "website", "data">>

\* odoo_context.py:132-140, the category each pass appends to, in calling order
PassOrder == <<"manifests", "models", "views", "controllers", "assets", "security",
               "reports", "website", "data">>

\* the categories whose pass returns at once when the analysis holds nothing for them
AnalysisCategories == {"models", "views", "controllers", "assets", "reports", "website"}

\* What happens when a pass handles one file.
\*   match      : the file is read and meets the criteria of the pass
\*   nomatch    : the file is read (or looked up) and does not meet them
\*   malformed  : the file is read and is not well-formed XML
\*   vanished   : reading raises FileNotFoundError
\*   unreadable : reading raises another OSError (PermissionError, I/O error)
\*   undecodable: reading raises UnicodeDecodeError
FileStates == {"match", "nomatch", "malformed", "vanished", "unreadable", "undecodable"}

\* "append", "skip", "raise" (the exception leaves the pass) or "abort" (the
\* exception is caught around the whole pass, which ends with a warning)

\* _gather_manifest, _gather_controllers, _gather_assets, _gather_security,
\* _gather_data: read_text stands in no try block
PlainHandling ==
    [f \in FileStates \ {"malformed"} |->
        IF f = "match" THEN "append" ELSE IF f = "nomatch" THEN "skip" ELSE "raise"]

\* _gather_models: one try block around the pass, except Exception
ModelsHandling ==
    [f \in FileStates \ {"malformed"} |->
        IF f = "match" THEN "append" ELSE IF f = "nomatch" THEN "skip" ELSE "abort"]

\* _gather_views, _gather_reports, _gather_website_templates: a try block per
\* file, except (ET.ParseError, FileNotFoundError)
XmlHandling ==
    [f \in FileStates |->
        IF f = "match" THEN "append"
        ELSE IF f \in {"nomatch", "malformed", "vanished"} THEN "skip"
        ELSE "raise"]

\* a pass over the files in order: the indices of the files appended, and how the pass ended
RECURSIVE Scan(_, _, _, _)
Scan(handling, files, i, acc) ==
    IF i > Len(files) THEN [appended |-> acc, ended |-> "ok"]
    ELSE IF handling[files[i]] = "append" THEN Scan(handling, files, i + 1, Append(acc, i))
    ELSE IF handling[files[i]] = "skip" THEN Scan(handling, files, i + 1, acc)
    ELSE [appended |-> acc, ended |-> handling[files[i]]]

\* context[module_name] as created at odoo_context.py:120-130
EmptyCategories == [c \in Range(CategoryKeys) |-> <<>>]

\* the artifacts a pass appends: one per file appended
Artifacts(m, category, appended) ==
    [k \in 1..Len(appended) |-> <<m, category, appended[k]>>]

DistinctSeqs(S) == {s \in SeqsUpTo(S, Cardinality(S)) : \A i, j \in 1..Len(s) : s[i] = s[j] => i = j}

\* the state at odoo_context.py:110: an ordered module list without
\* duplicates, paths for some of its modules, an analysis
InitExtract ==
    /\ sorted_modules \in DistinctSeqs(ExtractNames)
    /\ module_paths \in [ExtractNames -> {NoPath, 1}]
    /\ \A m \in ExtractNames : m \notin Range(sorted_modules) => module_paths[m] = NoPath
    /\ analysis \in {{}, AnalysisCategories}
    /\ context = [m \in ExtractNames |-> EmptyCategories]
    /\ context_keys = <<>>
    /\ idx = 1
    /\ stage = 0
    /\ files_seen = 0
    /\ visits = [m \in ExtractNames |-> 0]
    /\ pc = "gather"
    /\ error = "none"
    /\ log = {}
    /\ modules = <<>>
    /\ max_level = NoLevel
    /\ to_process = <<>>
    /\ processed = {}
    /\ nodes = <<>>
    /\ edges = <<>>
    /\ addons = [m \in Names |-> {}]
    /\ depends_of = [m \in Names |-> <<>>]
    /\ last_read = NoRead
    /\ marks = [m \in Names |-> 0]
    /\ reads = [m \in Names |-> 0]
    /\ enqueued = {}
    /\ IdleNew

AtLoopHead ==
    /\ pc = "gather"
    /\ stage = 0
    /\ idx <= Len(sorted_modules)

\* faulty variant, used to test the properties: base is missing from the list of the modules passed over
IsFoundationWithoutBase(m) == m \in {"web", "mail", "utm"}

\* odoo_context.py:113-114
IsFoundation(m) == m \in FoundationModules

\* odoo_context.py:116-118
HasPath(m) == module_paths[m] # NoPath

\* lines 112-114: a foundation module is passed over
VisitSkipFoundation ==
    /\ AtLoopHead
    /\ IsFoundation(sorted_modules[idx])
    /\ idx' = idx + 1
    /\ UNCHANGED <<pc, error, log, sorted_modules, module_paths, gvars, nvars,
                   analysis, context, context_keys, stage, files_seen, visits>>

\* lines 112-118: a module without resolved path is passed over
VisitSkipNoPath ==
    /\ AtLoopHead
    /\ ~IsFoundation(sorted_modules[idx])
    /\ ~HasPath(sorted_modules[idx])
    /\ idx' = idx + 1
    /\ UNCHANGED <<pc, error, log, sorted_modules, module_paths, gvars, nvars,
                   analysis, context, context_keys, stage, files_seen, visits>>

\* lines 112-130: the entry of the module is created
VisitModule ==
    /\ AtLoopHead
    /\ LET m == sorted_modules[idx] IN
        /\ ~IsFoundation(m)
        /\ HasPath(m)
        /\ context' = [context EXCEPT ![m] = EmptyCategories]
        /\ context_keys' = AddNode(context_keys, m)
        /\ visits' = [visits EXCEPT ![m] = @ + 1]
    /\ stage' = 1
    /\ UNCHANGED <<pc, error, log, sorted_modules, module_paths, gvars, nvars,
                   analysis, idx, files_seen>>

\* the stage that follows pass k: the next pass, or the loop head after the last pass
NextStage(k) == IF k = Len(PassOrder) THEN 0 ELSE k + 1

\* one pass of the current module: it handles `files` with `handling`
\* and appends to the category of the pass
Pass(k, handling, files) ==
    /\ pc = "gather"
    /\ stage = k
    /\ LET m == sorted_modules[idx]
           category == PassOrder[k]
           r == Scan(handling, files, 1, <<>>)
       IN /\ context' = [context EXCEPT ![m][category] = @ \o Artifacts(m, category, r.appended)]
          /\ IF r.ended = "raise"
             THEN /\ pc' = "raised"
                  /\ error' = "OSError"
                  /\ UNCHANGED <<stage, idx>>
             ELSE /\ stage' = NextStage(k)
                  /\ idx' = IF NextStage(k) = 0 THEN idx + 1 ELSE idx
                  /\ UNCHANGED <<pc, error>>
          /\ log' = IF r.ended = "abort" THEN log \cup {<<"warning", category, m>>} ELSE log
    /\ UNCHANGED <<sorted_modules, module_paths, gvars, nvars, analysis, context_keys, visits>>

\* the files a pass can meet: none when the analysis holds nothing for its
\* category, else any files the file system still has in store
FilesFor(category, handling) ==
    IF category \in AnalysisCategories /\ category \notin analysis THEN {<<>>}
    ELSE SeqsUpTo(DOMAIN handling, MaxFiles - files_seen)

\* _gather_manifest (lines 167-176): the manifest of a resolved module exists
GatherManifest ==
    /\ \E f \in {"match", "unreadable", "undecodable"} : Pass(1, PlainHandling, <<f>>)
    /\ UNCHANGED files_seen

\* _gather_models (lines 178-232)
GatherModels ==
    \E files \in FilesFor("models", ModelsHandling) :
        Pass(2, ModelsHandling, files) /\ files_seen' = files_seen + Len(files)

\* _gather_views (lines 234-251)
GatherViews ==
    \E files \in FilesFor("views", XmlHandling) :
        Pass(3, XmlHandling, files) /\ files_seen' = files_seen + Len(files)

\* _gather_controllers (lines 253-272)
GatherControllers ==
    \E files \in FilesFor("controllers", PlainHandling) :
        Pass(4, PlainHandling, files) /\ files_seen' = files_seen + Len(files)

\* _gather_assets (lines 274-297)
GatherAssets ==
    \E files \in FilesFor("assets", PlainHandling) :
        Pass(5, PlainHandling, files) /\ files_seen' = files_seen + Len(files)

\* _gather_security (lines 299-305)
GatherSecurity ==
    \E files \in FilesFor("security", PlainHandling) :
        Pass(6, PlainHandling, files) /\ files_seen' = files_seen + Len(files)

\* _gather_reports (lines 307-323)
GatherReports ==
    \E files \in FilesFor("reports", XmlHandling) :
        Pass(7, XmlHandling, files) /\ files_seen' = files_seen + Len(files)

\* _gather_website_templates (lines 325-343)
GatherWebsiteTemplates ==
    \E files \in FilesFor("website", XmlHandling) :
        Pass(8, XmlHandling, files) /\ files_seen' = files_seen + Len(files)

\* _gather_data (lines 345-351)
GatherData ==
    \E files \in FilesFor("data", PlainHandling) :
        Pass(9, PlainHandling, files) /\ files_seen' = files_seen + Len(files)

\* lines 142-165: the loop is over, the summary is logged, context is returned
GatherReturn ==
    /\ pc = "gather"
    /\ stage = 0
    /\ idx > Len(sorted_modules)
    /\ pc' = "returned"
    /\ UNCHANGED <<error, log, sorted_modules, module_paths, gvars, xvars, nvars>>

NextExtract ==
    \/ VisitSkipFoundation \/ VisitSkipNoPath \/ VisitModule
    \/ GatherManifest \/ GatherModels \/ GatherViews \/ GatherControllers \/ GatherAssets
    \/ GatherSecurity \/ GatherReports \/ GatherWebsiteTemplates \/ GatherData
    \/ GatherReturn

SpecExtract == InitExtract /\ [][NextExtract]_vars

\* ------------------------------------------------------------ helpers of the properties
Deps(m) == Range(depends_of[m])

\* the names reachable from S by following the dependencies read from manifests
RECURSIVE Closure(_, _)
Closure(S, k) == IF k = 0 THEN S ELSE Closure(S \cup UNION {Deps(x) : x \in S}, k - 1)

ReachableFrom(S) == Closure(S, Cardinality(Names))

\* some module depends on itself, directly or through other modules
DeclaredCycle == \E m \in Names : m \in ReachableFrom(Deps(m))

\* a occurs before b in the sequence s
Before(s, a, b) == \E i, j \in 1..Len(s) : i < j /\ s[i] = a /\ s[j] = b

NoDuplicates(s) == \A i, j \in 1..Len(s) : s[i] = s[j] => i = j

\* the edge relation of the graph has a cycle
RECURSIVE EdgeClosure(_, _)
EdgeClosure(S, k) ==
    IF k = 0 THEN S
    ELSE EdgeClosure(S \cup {e[2] : e \in {x \in Range(edges) : x[1] \in S}}, k - 1)

GraphHasCycle ==
    \E n \in Range(nodes) :
        n \in EdgeClosure({e[2] : e \in {x \in Range(edges) : x[1] = n}}, Cardinality(Names))

\* ------------------------------------------------------------ properties

\* C1: when the manifests read declare no cycle, the ordered module list puts
\* every dependency of a module before the module itself.
C1_DependenciesFirst ==
    (pc = "done" /\ ~DeclaredCycle) =>
        \A m \in Names : \A d \in Deps(m) : Before(sorted_modules, d, m)

\* C1 witness: an acyclic chain of three modules was ordered, and the order
\* differs from the order in which the nodes were added.
C1_Witness ==
    /\ pc = "done"
    /\ ~DeclaredCycle
    /\ Len(sorted_modules) = 3
    /\ Len(edges) = 2
    /\ sorted_modules # nodes

ReturnedFor(ns, es) == <<OrderModules(ns, es), module_paths>>

C3_ReachableOnce ==
    pc \in {"built", "done"} =>
        /\ Range(nodes) = ReachableFrom(Range(modules))
        /\ processed = ReachableFrom(Range(modules))
        /\ \A n \in Names :
            /\ marks[n] = (IF n \in ReachableFrom(Range(modules)) THEN 1 ELSE 0)
            /\ reads[n] = (IF n \in ReachableFrom(Range(modules)) /\ _get_module_path(addons[n]) # NoPath
                           THEN 1 ELSE 0)

\* C3 witness: two seeds have the same dependency, which is put on the queue
\* twice, and that dependency depends on a seed.
C3_Witness ==
    /\ pc = "built"
    /\ modules = <<"sale", "base">>
    /\ depends_of["sale"] = <<"mail">>
    /\ depends_of["base"] = <<"mail">>
    /\ depends_of["mail"] = <<"sale">>

\* C4 (original): a build called with max_level = 1 for the seeds [sale] returns
\* a graph, and when sale depends on [base, mail] that graph has the nodes
\* sale, base, mail and the edges base->sale, mail->sale only.
C4_Original ==
    (max_level = 1 /\ modules = <<"sale">>) =>
        /\ error = "none"
        /\ (pc \in {"built", "done"} /\ depends_of["sale"] = <<"base", "mail">>) =>
                /\ Range(nodes) = {"sale", "base", "mail"}
                /\ Range(edges) = {<<"base", "sale">>, <<"mail", "sale">>}

\* C5 (original): the work-queue loop always goes on until the queue is empty
\* and the graph is returned (a state of the loop is never a dead end), the
\* names marked processed are those dequeued, and no name is expanded twice.
C5_Original ==
    /\ (error # "TypeError") => (pc \in {"built", "done"} \/ ENABLED Next)
    /\ \A n \in Names : marks[n] <= 1 /\ reads[n] <= 1
    /\ \A n \in Names : marks[n] = 1 <=> n \in processed

\* C6 (original): once a module was found in no addon root, it is a node, no
\* edge points to it, and the build is not aborted: it goes on until every
\* name that was put on the work queue is processed and the graph is returned.
C6_Original ==
    \A m \in Names :
        <<"warning", "not found", m>> \in log =>
            /\ m \in Range(nodes)
            /\ \A e \in Range(edges) : e[2] # m
            /\ error = "none"
            /\ pc \in {"built", "done"} => enqueued \subseteq processed

\* the manifests for which the reader is to return null
NullManifestKinds == {"notfile", "unreadable", "syntax", "nodict", "nonliteral"}

\* C7 (original): reading a manifest that is missing, unreadable, malformed,
\* without a dictionary or not literal raises nothing; the module stays a node
\* without dependencies and the build goes on.
C7_Original ==
    last_read.file.kind \in NullManifestKinds =>
        /\ _read_manifest(last_read.file) = "none"
        /\ error = "none"
        /\ pc = "loop"
        /\ last_read.module \in Range(nodes)
        /\ depends_of[last_read.module] = <<>>
        /\ \A e \in Range(edges) : e[2] # last_read.module

\* ------------------------------------------------------------ properties of the extraction

\* s is a prefix of t
IsPrefix(s, t) == Len(s) <= Len(t) /\ \A i \in 1..Len(s) : s[i] = t[i]

\* C8 (original): no failure of a file leaves the extraction, and the
\* extraction only stops after every module of the list that is to be
\* extracted was visited.
C8_Original ==
    /\ error = "none"
    /\ ~ENABLED NextExtract =>
        /\ pc = "returned"
        /\ \A m \in Range(sorted_modules) :
            (m \notin {"base", "web", "mail", "utm"} /\ module_paths[m] # NoPath) => visits[m] = 1

\* the place of each category in the order manifest, models, views,
\* controllers, assets, security, reports, website templates, data
C9_Place ==
    [c \in {"manifests", "models", "views", "controllers", "assets", "security", "reports",
            "website", "data"} |->
        CASE c = "manifests" -> 1 [] c = "models" -> 2 [] c = "views" -> 3
          [] c = "controllers" -> 4 [] c = "assets" -> 5 [] c = "security" -> 6
          [] c = "reports" -> 7 [] c = "website" -> 8 [] c = "data" -> 9]

RECURSIVE FlattenModule(_, _)
FlattenModule(m, keys) ==
    IF keys = <<>> THEN <<>> ELSE context[m][Head(keys)] \o FlattenModule(m, Tail(keys))

\* the artifacts of the result as one sequence: module by module in the order
\* of the keys of context
RECURSIVE Flatten(_)
Flatten(ms) ==
    IF ms = <<>> THEN <<>> ELSE FlattenModule(Head(ms), CategoryKeys) \o Flatten(Tail(ms))

C10_SkipsAndVisits ==
    \A m \in ExtractNames :
        LET skipped == m \in {"base", "web", "mail", "utm"} \/ module_paths[m] = NoPath IN
        /\ visits[m] <= 1
        /\ skipped =>
            /\ visits[m] = 0
            /\ m \notin Range(context_keys)
            /\ \A c \in DOMAIN context[m] : context[m][c] = <<>>
            /\ \A n \in ExtractNames : \A c \in DOMAIN context[n] :
                \A k \in 1..Len(context[n][c]) : context[n][c][k][1] # m
        /\ (pc = "returned" /\ m \in Range(sorted_modules) /\ ~skipped) =>
            /\ visits[m] = 1
            /\ m \in Range(context_keys)

\* C10 witness: a list with a foundation module that has a path, a module
\* without path and an ordinary module was extracted.
C10_Witness ==
    /\ pc = "returned"
    /\ "base" \in Range(sorted_modules) /\ module_paths["base"] # NoPath
    /\ "crm" \in Range(sorted_modules) /\ module_paths["crm"] = NoPath
    /\ visits["sale"] = 1
    /\ context["sale"]["manifests"] # <<>>

\* ---------------------------------------------------------------- C18
\* C18: at every iteration boundary of the loop of build_dependency_tree, every
\* edge <<d, m>> of the graph has m in the processed set, m resolved to a path,
\* d among the depends read from m's manifest, and d processed or still waiting
\* in the work queue; when the loop ends with the queue empty the node set of
\* the graph is the processed set and every node was dequeued and marked.
C18_EdgeInvariant ==
    /\ \A i \in 1..Len(edges) :
        LET d == edges[i][1]
            m == edges[i][2]
        IN /\ m \in processed
           /\ _get_module_path(addons[m]) # NoPath
           /\ d \in Range(depends_of[m])
           /\ d \in processed \/ d \in Range(to_process)
    /\ pc \in {"built", "done"} =>
        /\ Range(nodes) = processed
        /\ \A n \in Range(nodes) : marks[n] >= 1

\* the loop has ended on a graph with two edges over three nodes
C18_Witness ==
    /\ pc = "built"
    /\ Len(edges) = 2
    /\ Len(nodes) = 3

\* ------------------------------------------------- addon resolver, alone
\* SpecResolve: graph._get_module_path called repeatedly on one file system.
\* tree[i] is what the i-th root of process.odoo_addons_paths holds under the
\* module name:
\*   absent     : no entry of that name
\*   notdir     : an entry that is not a directory
\*   nomanifest : a directory without an entry __manifest__.py
\*   manifest   : a directory with an entry __manifest__.py
MaxRoots == 3
MaxCalls == 2

RootEntries == {"absent", "notdir", "nomanifest", "manifest"}

\* graph.py:62, module_path.is_dir()
IsDir(entry) == entry \in {"nomanifest", "manifest"}

\* graph.py:62, (module_path / "__manifest__.py").exists()
ManifestExists(entry) == entry = "manifest"

\* the values the graph builder and the extraction loop hold in the other specifications
IdleGraph ==
    /\ modules = <<>>
    /\ max_level = NoLevel
    /\ to_process = <<>>
    /\ processed = {}
    /\ nodes = <<>>
    /\ edges = <<>>
    /\ addons = [m \in Names |-> {}]
    /\ depends_of = [m \in Names |-> <<>>]
    /\ last_read = NoRead
    /\ marks = [m \in Names |-> 0]
    /\ reads = [m \in Names |-> 0]
    /\ enqueued = {}
    /\ sorted_modules = <<>>
    /\ module_paths = [m \in Names |-> NoPath]

IdleExtract ==
    /\ analysis = {}
    /\ context = <<>>
    /\ context_keys = <<>>
    /\ idx = 1
    /\ stage = 0
    /\ files_seen = 0
    /\ visits = [m \in Names |-> 0]

\* faulty variant, used to test the properties: the loop does not return at the first match
RECURSIVE SearchRootsLast(_, _)
SearchRootsLast(roots, i) ==
    IF i > Len(roots) THEN NoPath
    ELSE LET later == SearchRootsLast(roots, i + 1)
         IN IF later # NoPath THEN later
            ELSE IF IsDir(roots[i]) /\ ManifestExists(roots[i]) THEN i ELSE NoPath

\* graph.py:60-64, the loop over the addon roots from position i on; the value
\* is the position of the root whose module path is returned, NoPath for None
RECURSIVE SearchRoots(_, _)
SearchRoots(roots, i) ==
    IF i > Len(roots) THEN NoPath
    ELSE IF IsDir(roots[i]) /\ ManifestExists(roots[i]) THEN i
    ELSE SearchRoots(roots, i + 1)

InitResolve ==
    /\ tree \in SeqsUpTo(RootEntries, MaxRoots)
    /\ resolved = <<>>
    /\ pc = "resolve"
    /\ error = "none"
    /\ log = {}
    /\ IdleGraph
    /\ IdleExtract
    /\ IdlePass
    /\ IdleLLM

\* one call of _get_module_path(process, module_name)
ResolveCall ==
    /\ pc = "resolve"
    /\ Len(resolved) < MaxCalls
    /\ resolved' = Append(resolved, SearchRoots(tree, 1))
    /\ UNCHANGED <<tree, pc, error, log, sorted_modules, module_paths, gvars, xvars, pvars, lvars>>

NextResolve == ResolveCall

SpecResolve == InitResolve /\ [][NextResolve]_vars

\* the roots of the list that hold the module: a directory with a manifest
Qualifies(i) == tree[i] = "manifest"

\* ---------------------------------------------------------------- C16
\* C16: every call of the resolver returns the first root, in list order, whose
\* directory root/moduleName exists and holds a manifest, and not-found when
\* no root does; calls repeated on the same file system return the same root
\* (with the module in two roots, the one searched first), and a call changes
\* nothing but its result.
C16_FirstMatchWins ==
    /\ \A k \in 1..Len(resolved) :
        LET r == resolved[k] IN
        /\ r = NoPath <=> \A i \in 1..Len(tree) : ~Qualifies(i)
        /\ r # NoPath => /\ r \in 1..Len(tree)
                         /\ Qualifies(r)
                         /\ \A i \in 1..(r - 1) : ~Qualifies(i)
        /\ r = resolved[1]
    /\ error = "none" /\ log = {}

\* the module lies in two roots and the resolver was called twice
C16_Witness ==
    /\ Len(resolved) = 2
    /\ Cardinality({i \in 1..Len(tree) : Qualifies(i)}) >= 2
    /\ ~Qualifies(1)

\* ------------------------------------------------ category passes, alone
\* SpecPasses: one call of a category pass of OdooContext (_gather_models,
\* _gather_views, _gather_assets or _gather_data) for one module, on inputs
\* drawn from bounded sets; one action per file the pass handles.
MaxLines     == 3
MaxPassFiles == 2
MaxRecords   == 2

\* ----------------------------------------------------- _gather_models
\* The lines of a model file.  target holds the pieces of the text that stands
\* before the "=" of an assignment, names the quoted names after it:
\*   ClassLine       class Partner(models.Model):
\*   NameLine            _name = 'res.partner'
\*   InheritLine         _inherit = 'sale.order'
\*   InheritListLine     _inherit = ['mail.thread', 'sale.order']
\*   ComodelLine         partner_id = fields.Many2one(comodel_name='res.partner')
\*   BlankLine       (empty)
\*   StmtLine        logger = logging.getLogger(__name__)
ClassLine == [kind |-> "class", indent |-> 0, target |-> <<>>, list |-> FALSE, names |-> <<>>]

NameLine == [kind |-> "assign", indent |-> 4, target |-> <<"_name">>, list |-> FALSE,
             names |-> <<"res.partner">>]

InheritLine == [kind |-> "assign", indent |-> 4, target |-> <<"_inherit">>, list |-> FALSE,
                names |-> <<"sale.order">>]

InheritListLine == [kind |-> "assign", indent |-> 4, target |-> <<"_inherit">>, list |-> TRUE,
                    names |-> <<"mail.thread", "sale.order">>]

ComodelLine == [kind |-> "assign", indent |-> 4, target |-> <<"comodel", "_name">>, list |-> FALSE,
                names |-> <<"res.partner">>]

BlankLine == [kind |-> "blank", indent |-> 0, target |-> <<>>, list |-> FALSE, names |-> <<>>]

StmtLine == [kind |-> "stmt", indent |-> 0, target |-> <<>>, list |-> FALSE, names |-> <<>>]

PyLines == {ClassLine, NameLine, InheritLine, InheritListLine, ComodelLine, BlankLine, StmtLine}

PyFiles == SeqsUpTo(PyLines, MaxLines)

\* line 204: re.match(r"^(\s*)class\s+.*:", line)
ClassMatch(line) == line.kind = "class"

\* line 215: a non-blank line indented no deeper than the class line ends the block
EndsBlock(line, class_indentation) == line.kind # "blank" /\ line.indent <= class_indentation

\* lines 212-218: the position of the first line after the block that starts before j
RECURSIVE BlockEnd(_, _, _)
BlockEnd(content_lines, j, class_indentation) ==
    IF j > Len(content_lines) \/ EndsBlock(content_lines[j], class_indentation) THEN j
    ELSE BlockEnd(content_lines, j + 1, class_indentation)

\* lines 201-218, 230: the declaration blocks of a file, from line i on
RECURSIVE ClassBlocks(_, _)
ClassBlocks(content_lines, i) ==
    IF i > Len(content_lines) THEN <<>>
    ELSE IF ~ClassMatch(content_lines[i]) THEN ClassBlocks(content_lines, i + 1)
    ELSE LET j == BlockEnd(content_lines, i + 1, content_lines[i].indent)
         IN <<SubSeq(content_lines, i, j - 1)>> \o ClassBlocks(content_lines, j)

\* the regular expressions of lines 221-223 search the text of the block for the
\* pattern anywhere: an assignment is found when the text before its "=" ends
\* with the attribute name
EndsWith(target, attribute) == target # <<>> /\ target[Len(target)] = attribute

\* line 221: re.findall(r"_name\s*=\s*['\"]([^'\"]+)['\"]", class_content)
Declared(block) ==
    UNION {Range(block[k].names) :
           k \in {n \in 1..Len(block) : EndsWith(block[n].target, "_name") /\ ~block[n].list}}

\* line 222: re.findall(r"_inherit\s*=\s*['\"]([^'\"]+)['\"]", class_content)
Inherited(block) ==
    UNION {Range(block[k].names) :
           k \in {n \in 1..Len(block) : EndsWith(block[n].target, "_inherit") /\ ~block[n].list}}

\* lines 223-226: re.search(r"_inherit\s*=\s*\[([^\]]+)\]", class_content), the first list only
InheritedList(block) ==
    LET lists == {n \in 1..Len(block) : EndsWith(block[n].target, "_inherit") /\ block[n].list}
    IN IF lists = {} THEN {}
       ELSE Range(block[CHOOSE n \in lists : \A o \in lists : n <= o].names)

\* line 228: analysis_models.intersection(set(declared + inherited))
BlockMatches(block, analysis_models) ==
    analysis_models \cap (Declared(block) \cup Inherited(block) \cup InheritedList(block)) # {}

\* lines 199-230 for one file: the artifacts appended, one per matching block
RECURSIVE BlockArtifacts(_, _, _)
BlockArtifacts(path, blocks, analysis_models) ==
    IF blocks = <<>> THEN <<>>
    ELSE (IF BlockMatches(Head(blocks), analysis_models)
          THEN <<[path |-> path, content |-> Head(blocks)]>> ELSE <<>>)
         \o BlockArtifacts(path, Tail(blocks), analysis_models)

\* The models directory of the module.
\*   nodir      : module_path / "models" is not a directory
\*   noinit     : the directory has no __init__.py
\*   unreadable : reading __init__.py raises
\*   ok         : init_content are the lines of __init__.py, present the model
\*                files that exist
\* A line of __init__.py is the list of names after "from . import", the empty
\* list for a line the pattern of line 192 does not match.
MaxInitLines == 1

PyNames == {"foo", "bar"}

InitLines == {<<>>, <<"foo">>, <<"bar">>, <<"foo", "bar">>}

ModelsDirs ==
    {[kind |-> k, init_content |-> <<>>, present |-> {}] : k \in {"nodir", "noinit", "unreadable"}}
    \cup {[kind |-> "ok", init_content |-> c, present |-> q] :
          c \in SeqsUpTo(InitLines, MaxInitLines), q \in {{}, {"foo"}, PyNames}}

\* lines 194-197: the names of one import line whose file exists
RECURSIVE ExistingFiles(_, _)
ExistingFiles(names, present) ==
    IF names = <<>> THEN <<>>
    ELSE (IF Head(names) \in present THEN <<Head(names)>> ELSE <<>>)
         \o ExistingFiles(Tail(names), present)

\* lines 190-197: loaded_py_files
RECURSIVE LoadedPyFiles(_, _)
LoadedPyFiles(init_content, present) ==
    IF init_content = <<>> THEN <<>>
    ELSE ExistingFiles(Head(init_content), present) \o LoadedPyFiles(Tail(init_content), present)

PassModule == "sale"

OverrideChoices == {"", "sale", "crm"}

RequestedModels == {{}, {"res.partner"}, {"sale.order"}}

InitModels ==
    /\ pass_category = "models"
    /\ criteria \in RequestedModels
    /\ override_module \in OverrideChoices
    /\ module_dir \in ModelsDirs

\* line 185: nothing to do
ModelsReturnEarly ==
    /\ pc = "pass"
    /\ pass_category = "models"
    /\ module_dir.kind \in {"nodir", "noinit"} \/ criteria = {}
    /\ pc' = "returned"
    /\ UNCHANGED <<error, log, sorted_modules, module_paths, gvars, xvars, pvars, rvars, lvars>>

\* lines 188-197 (and 231-232 when __init__.py cannot be read)
ModelsReadInit ==
    /\ pc = "pass"
    /\ pass_category = "models"
    /\ module_dir.kind \in {"unreadable", "ok"}
    /\ criteria # {}
    /\ IF module_dir.kind = "unreadable"
       THEN /\ pc' = "returned"
            /\ log' = log \cup {<<"warning", "models", module_name>>}
            /\ UNCHANGED loaded_py_files
       ELSE /\ pc' = "scan"
            /\ loaded_py_files' = LoadedPyFiles(module_dir.init_content, module_dir.present)
            /\ UNCHANGED log
    /\ UNCHANGED <<error, sorted_modules, module_paths, gvars, xvars, pass_category, module_name,
                   override_module, criteria, module_dir, scanned, pass_list, rvars, lvars>>

\* lines 199-230 for the next file of loaded_py_files; when the file cannot be
\* read the except clause of lines 231-232 ends the pass
ModelsScanFile ==
    /\ pc = "scan"
    /\ pass_category = "models"
    /\ Len(scanned) < Len(loaded_py_files)
    /\ LET py_file == loaded_py_files[Len(scanned) + 1] IN
       \/ \E content_lines \in PyFiles :
            /\ scanned' = Append(scanned, [path |-> py_file, readable |-> TRUE,
                                           content |-> content_lines])
            /\ pass_list' = pass_list \o BlockArtifacts(py_file, ClassBlocks(content_lines, 1), criteria)
            /\ UNCHANGED <<pc, log>>
       \/ /\ scanned' = Append(scanned, [path |-> py_file, readable |-> FALSE, content |-> <<>>])
          /\ pc' = "returned"
          /\ log' = log \cup {<<"warning", "models", module_name>>}
          /\ UNCHANGED pass_list
    /\ UNCHANGED <<error, sorted_modules, module_paths, gvars, xvars, pass_category, module_name,
                   override_module, criteria, loaded_py_files, module_dir, rvars, lvars>>

\* the loop of line 199 is over
ModelsReturn ==
    /\ pc = "scan"
    /\ pass_category = "models"
    /\ Len(scanned) = Len(loaded_py_files)
    /\ pc' = "returned"
    /\ UNCHANGED <<error, log, sorted_modules, module_paths, gvars, xvars, pvars, rvars, lvars>>

GatherModelsAlone == ModelsReturnEarly \/ ModelsReadInit \/ ModelsScanFile \/ ModelsReturn

\* ------------------------------------------------------ _gather_views
\* A record of an XML file: the model attribute of the record element and the
\* text of its field named "model" ("" when the record has no such field).
XmlRecords ==
    {[model |-> "ir.ui.view", field |-> "res.partner"],
     [model |-> "ir.ui.view", field |-> "sale.order"],
     [model |-> "ir.ui.view", field |-> ""],
     [model |-> "ir.actions.report", field |-> "res.partner"]}

\* An XML file of the module:
\*   wellformed  : ET.fromstring returns the tree that holds records
\*   malformed   : ET.fromstring raises ET.ParseError
\*   vanished    : read_text raises FileNotFoundError
\*   unreadable  : read_text raises PermissionError
\*   undecodable : read_text raises UnicodeDecodeError
XmlFiles ==
    {[state |-> "wellformed", records |-> r] : r \in SeqsUpTo(XmlRecords, MaxRecords)}
    \cup {[state |-> st, records |-> <<>>] :
          st \in {"malformed", "vanished", "unreadable", "undecodable"}}

RequestedViewModels == {{}, {"res.partner"}, {"res.partner", "sale.order"}}

\* lines 245-249: the loop over the ir.ui.view records stops at the first match
RECURSIVE HasViewFor(_, _)
HasViewFor(records, analysis_view_models) ==
    IF records = <<>> THEN FALSE
    ELSE IF /\ Head(records).model = "ir.ui.view"
            /\ Head(records).field # ""
            /\ Head(records).field \in analysis_view_models
         THEN TRUE
         ELSE HasViewFor(Tail(records), analysis_view_models)

\* line 250: the exceptions the pass catches, by the state of the file
XmlCaught(xml_file) == xml_file.state \in {"malformed", "vanished"}

\* the exception that leaves the pass, by the state of the file
XmlRaised(xml_file) ==
    IF xml_file.state = "unreadable" THEN "PermissionError"
    ELSE IF xml_file.state = "undecodable" THEN "UnicodeDecodeError"
    ELSE "none"

InitViews ==
    /\ pass_category = "views"
    /\ criteria \in RequestedViewModels
    /\ override_module = ""
    /\ module_dir \in SeqsUpTo(XmlFiles, MaxPassFiles)

\* lines 236-238: no view is requested
ViewsReturnEarly ==
    /\ pc = "pass"
    /\ pass_category = "views"
    /\ criteria = {}
    /\ pc' = "returned"
    /\ UNCHANGED <<error, log, sorted_modules, module_paths, gvars, xvars, pvars, rvars, lvars>>

\* lines 241-251 for the next file of module_path.rglob("*.xml")
ViewsScanFile ==
    /\ pc \in {"pass", "scan"}
    /\ pass_category = "views"
    /\ criteria # {}
    /\ Len(scanned) < Len(module_dir)
    /\ LET k == Len(scanned) + 1
           xml_file == module_dir[k]
       IN /\ scanned' = Append(scanned, k)
          /\ IF XmlRaised(xml_file) # "none"
             THEN /\ pc' = "raised"
                  /\ error' = XmlRaised(xml_file)
                  /\ UNCHANGED pass_list
             ELSE /\ pc' = "scan"
                  /\ UNCHANGED error
                  /\ pass_list' =
                        IF ~XmlCaught(xml_file) /\ HasViewFor(xml_file.records, criteria)
                        THEN Append(pass_list, [path |-> k, content |-> xml_file])
                        ELSE pass_list
    /\ UNCHANGED <<log, sorted_modules, module_paths, gvars, xvars, pass_category, module_name,
                   override_module, criteria, loaded_py_files, module_dir, rvars, lvars>>

\* the loop of line 241 is over
ViewsReturn ==
    /\ pc \in {"pass", "scan"}
    /\ pass_category = "views"
    /\ criteria # {}
    /\ Len(scanned) = Len(module_dir)
    /\ pc' = "returned"
    /\ UNCHANGED <<error, log, sorted_modules, module_paths, gvars, xvars, pvars, rvars, lvars>>

GatherViewsAlone == ViewsReturnEarly \/ ViewsScanFile \/ ViewsReturn

\* ----------------------------------------------------- _gather_assets
\* An asset descriptor of the analysis.  Its file_path is "/" prefix "/" rel when
\* prefix names a module, rel alone when prefix is "", and is missing when rel
\* is "".  All descriptors with a path name the same file, static/src/js/app.js.
AssetDescriptors ==
    {[prefix |-> "", rel |-> ""],
     [prefix |-> "", rel |-> "static/src/js/app.js"],
     [prefix |-> "sale", rel |-> "static/src/js/app.js"],
     [prefix |-> "crm", rel |-> "static/src/js/app.js"]}

\* What the module directory holds for that file:
\*   direct : module_path / "static/src/js/app.js" is absent, a readable file,
\*            an unreadable file or a directory
\*   found  : what module_path.rglob("app.js") yields, in the order of the walk
DirectStates == {"absent", "file", "unreadable", "dir"}

FoundStates == {"file", "unreadable"}

AssetDirs ==
    {[direct |-> d, found |-> f] : d \in DirectStates, f \in SeqsUpTo(FoundStates, MaxPassFiles)}

\* lines 281-282: a leading "/<module_name>/" is cut off
StripModulePrefix(asset, name) ==
    IF asset.prefix = name THEN [asset EXCEPT !.prefix = ""] ELSE asset

\* lines 284-285: potential_path.exists(); a path that still starts with "/"
\* replaces module_path and names nothing inside the module
PotentialPathExists(asset, dir) == asset.prefix = "" /\ dir.direct # "absent"

\* lines 276-297 for one descriptor: what is looked up, the artifact appended
\* and the exception raised by read_text
GatherAsset(descriptor, name, dir) ==
    LET asset == StripModulePrefix(descriptor, name) IN
    IF descriptor.rel = "" THEN [tried |-> "none", artifact |-> <<>>, raised |-> "none"]
    ELSE IF PotentialPathExists(asset, dir)
    THEN IF dir.direct = "file"
         THEN [tried |-> "direct", raised |-> "none",
               artifact |-> <<[path |-> <<"direct", 0>>, content |-> asset.rel]>>]
         ELSE [tried |-> "direct", artifact |-> <<>>,
               raised |-> IF dir.direct = "dir" THEN "IsADirectoryError" ELSE "PermissionError"]
    ELSE IF dir.found = <<>> THEN [tried |-> "search", artifact |-> <<>>, raised |-> "none"]
    ELSE IF dir.found[1] = "file"
         THEN [tried |-> "search", raised |-> "none",
               artifact |-> <<[path |-> <<"found", 1>>, content |-> asset.rel]>>]
         ELSE [tried |-> "search", artifact |-> <<>>, raised |-> "PermissionError"]

InitAssets ==
    /\ pass_category = "assets"
    /\ criteria \in SeqsUpTo(AssetDescriptors, MaxPassFiles)
    /\ override_module = ""
    /\ module_dir \in AssetDirs

\* lines 276-297 for the next descriptor of analysis["assets"]
AssetsDescriptor ==
    /\ pc \in {"pass", "scan"}
    /\ pass_category = "assets"
    /\ Len(scanned) < Len(criteria)
    /\ LET k == Len(scanned) + 1
           r == GatherAsset(criteria[k], module_name, module_dir)
       IN /\ scanned' = Append(scanned, [tried |-> r.tried, appended |-> Len(r.artifact)])
          /\ pass_list' = pass_list \o r.artifact
          /\ IF r.raised # "none"
             THEN pc' = "raised" /\ error' = r.raised
             ELSE pc' = "scan" /\ UNCHANGED error
    /\ UNCHANGED <<log, sorted_modules, module_paths, gvars, xvars, pass_category, module_name,
                   override_module, criteria, loaded_py_files, module_dir, rvars, lvars>>

\* the loop of line 276 is over
AssetsReturn ==
    /\ pc \in {"pass", "scan"}
    /\ pass_category = "assets"
    /\ Len(scanned) = Len(criteria)
    /\ pc' = "returned"
    /\ UNCHANGED <<error, log, sorted_modules, module_paths, gvars, xvars, pvars, rvars, lvars>>

GatherAssetsAlone == AssetsDescriptor \/ AssetsReturn

\* ------------------------------------------------------- _gather_data
\* An entry of the module tree at or below data:
\*   where : "data" for an entry directly inside the directory, "data/sub" for
\*           one inside a subdirectory of it
\*   ext   : the extension of its name
\*   kind  : a readable file, an unreadable file or a directory
DataEntries ==
    {[where |-> w, ext |-> e, kind |-> k] :
        w \in {"data", "data/sub"}, e \in {"xml", "csv", "txt"}, k \in {"file", "unreadable", "dir"}}

DataDirs ==
    {[is_dir |-> FALSE, entries |-> <<>>]}
    \cup {[is_dir |-> TRUE, entries |-> e] : e \in SeqsUpTo(DataEntries, MaxPassFiles)}

\* line 349: data_dir.glob("*.xml") yields the entries directly inside data
\* whose name ends in .xml
GlobXml(entry) == entry.where = "data" /\ entry.ext = "xml"

\* line 350: data_file.is_file()
IsFile(entry) == entry.kind \in {"file", "unreadable"}

InitData ==
    /\ pass_category = "data"
    /\ criteria \in {{}, {"res.partner"}}
    /\ override_module = ""
    /\ module_dir \in DataDirs

\* line 348: there is no data directory
DataReturnEarly ==
    /\ pc = "pass"
    /\ pass_category = "data"
    /\ ~module_dir.is_dir
    /\ pc' = "returned"
    /\ UNCHANGED <<error, log, sorted_modules, module_paths, gvars, xvars, pvars, rvars, lvars>>

\* lines 349-351 for the next entry of the tree
DataEntry ==
    /\ pc \in {"pass", "scan"}
    /\ pass_category = "data"
    /\ module_dir.is_dir
    /\ Len(scanned) < Len(module_dir.entries)
    /\ LET k == Len(scanned) + 1
           data_file == module_dir.entries[k]
       IN /\ scanned' = Append(scanned, k)
          /\ IF GlobXml(data_file) /\ IsFile(data_file)
             THEN IF data_file.kind = "unreadable"
                  THEN /\ pc' = "raised"
                       /\ error' = "PermissionError"
                       /\ UNCHANGED pass_list
                  ELSE /\ pc' = "scan"
                       /\ pass_list' = Append(pass_list, [path |-> k, content |-> data_file])
                       /\ UNCHANGED error
             ELSE /\ pc' = "scan"
                  /\ UNCHANGED <<pass_list, error>>
    /\ UNCHANGED <<log, sorted_modules, module_paths, gvars, xvars, pass_category, module_name,
                   override_module, criteria, loaded_py_files, module_dir, rvars, lvars>>

\* the loop of line 349 is over
DataReturn ==
    /\ pc \in {"pass", "scan"}
    /\ pass_category = "data"
    /\ module_dir.is_dir
    /\ Len(scanned) = Len(module_dir.entries)
    /\ pc' = "returned"
    /\ UNCHANGED <<error, log, sorted_modules, module_paths, gvars, xvars, pvars, rvars, lvars>>

GatherDataAlone == DataReturnEarly \/ DataEntry \/ DataReturn

\* ------------------------------------------------------- SpecPasses
InitPasses ==
    /\ module_name = PassModule
    /\ InitModels \/ InitViews \/ InitAssets \/ InitData
    /\ loaded_py_files = <<>>
    /\ scanned = <<>>
    /\ pass_list = <<>>
    /\ pc = "pass"
    /\ error = "none"
    /\ log = {}
    /\ IdleGraph
    /\ IdleExtract
    /\ IdleResolve
    /\ IdleLLM

NextPasses == GatherModelsAlone \/ GatherViewsAlone \/ GatherAssetsAlone \/ GatherDataAlone

SpecPasses == InitPasses /\ [][NextPasses]_vars

\* the artifacts of the pass list that come from one path, in order
ArtifactsFrom(path) == SelectSeq(pass_list, LAMBDA a : a.path = path)

\* the names a block declares (_name) or extends (_inherit, single or list form)
DeclaresOrExtends(block) ==
    UNION {Range(block[k].names) :
           k \in {n \in 1..Len(block) : block[n].target \in {<<"_name">>, <<"_inherit">>}}}

\* the blocks of a file that declare or extend a requested model
RequestedBlocks(content_lines) ==
    SelectSeq(ClassBlocks(content_lines, 1), LAMBDA b : DeclaresOrExtends(b) \cap criteria # {})

\* ---------------------------------------------------------------- C11
\* C11: the models pass scans only files the initializer imports, and from a
\* file it has read it appends exactly the declaration blocks whose declared
\* (_name) or extended (_inherit) names meet the requested models, in order:
\* no block that names no requested model, and nothing from an unrelated file.
C11_Original ==
    pass_category = "models" =>
        /\ \A k \in 1..Len(pass_list) :
              \E n \in 1..Len(module_dir.init_content) :
                  pass_list[k].path \in Range(module_dir.init_content[n])
        /\ \A k \in 1..Len(scanned) :
              scanned[k].readable =>
                  ArtifactsFrom(scanned[k].path) =
                      [n \in 1..Len(RequestedBlocks(scanned[k].content)) |->
                          [path |-> scanned[k].path,
                           content |-> RequestedBlocks(scanned[k].content)[n]]]

\* ---------------------------------------------------------------- C12
\* C12: when no model is requested, the models pass includes the whole text of
\* every model file the initializer imports if the module is the override
\* module, and no model content otherwise.
C12_Original ==
    (pass_category = "models" /\ pc = "returned" /\ criteria = {}) =>
        IF override_module = module_name /\ module_dir.kind = "ok"
        THEN LET files == LoadedPyFiles(module_dir.init_content, module_dir.present)
             IN /\ Len(pass_list) = Len(files)
                /\ \A k \in 1..Len(files) : pass_list[k].path = files[k]
        ELSE pass_list = <<>>

\* ---------------------------------------------------------------- C13
\* C13: when views are requested and the views pass is over, every XML file of
\* the module that is well-formed and holds an ir.ui.view record for a
\* requested model is in the list in full exactly once, no other file is in
\* it, and no malformed file has stopped the scan.
C13_Original ==
    (pass_category = "views" /\ criteria # {} /\ pc \in {"returned", "raised"}) =>
        \A k \in 1..Len(module_dir) :
            LET xml_file == module_dir[k]
                wanted == /\ xml_file.state = "wellformed"
                          /\ \E n \in 1..Len(xml_file.records) :
                                /\ xml_file.records[n].model = "ir.ui.view"
                                /\ xml_file.records[n].field \in criteria
            IN ArtifactsFrom(k) = IF wanted THEN <<[path |-> k, content |-> xml_file]>> ELSE <<>>

\* ---------------------------------------------------------------- C14
\* C14: when the assets pass is over, every descriptor with a file path has
\* given at most one artifact: the file at the module-relative path (a leading
\* /moduleName/ cut off) when it exists, found without a filename search, and
\* otherwise the first match of the recursive search by filename, if any.
C14_Original ==
    (pass_category = "assets" /\ pc \in {"returned", "raised"}) =>
        \A k \in 1..Len(criteria) :
            criteria[k].rel # "" =>
                LET inside == criteria[k].prefix \in {"", module_name}
                    exists == inside /\ module_dir.direct \in {"file", "unreadable"}
                    missing == ~inside \/ module_dir.direct = "absent"
                IN /\ k <= Len(scanned)
                   /\ scanned[k].appended <= 1
                   /\ exists => scanned[k].tried = "direct" /\ scanned[k].appended = 1
                   /\ missing => /\ scanned[k].tried = "search"
                                 /\ scanned[k].appended = IF module_dir.found = <<>> THEN 0 ELSE 1

\* ---------------------------------------------------------------- C15
\* C15: when the data pass has returned, every file directly inside the data
\* directory with a .csv or .xml extension is in the list verbatim, whatever
\* the analysis requests, and nothing else is: no file of a subdirectory and
\* no file with another extension.
C15_Original ==
    (pass_category = "data" /\ pc = "returned") =>
        \A k \in 1..Len(module_dir.entries) :
            LET data_file == module_dir.entries[k]
                wanted == /\ data_file.where = "data"
                          /\ data_file.ext \in {"csv", "xml"}
                          /\ data_file.kind # "dir"
            IN ArtifactsFrom(k) = IF wanted THEN <<[path |-> k, content |-> data_file]>> ELSE <<>>

\* ------------------------------------------------------- LLM client
\* SpecLLM: one call of LLM.completion on a client built by LLM.__init__, one
\* action per attempt of _try_model_completion.
MaxOrder == 2

\* llm.py:15-32, two of the providers of LLM_PROVIDER_LIST with their models in
\* the order of the dictionary (flagship, stable, fast)
LLM_PROVIDER_LIST ==
    [Gemini |-> <<"gemini/gemini-3-pro-preview", "gemini/gemini-2.5-pro", "gemini/gemini-2.5-flash">>,
     Anthropic |-> <<"anthropic/claude-4-5-opus", "anthropic/claude-4-5-sonnet",
                     "anthropic/claude-3-5-haiku">>]

\* provider names a caller can give; Mistral is no key of LLM_PROVIDER_LIST
ProviderNames == {"Gemini", "Anthropic", "Mistral"}

\* model_identifier: name is the text after the "/" and "" when the identifier
\* holds no "/"; head is the text before it; both "" when no identifier is given
ModelIdentifiers ==
    {[head |-> "", name |-> ""],
     [head |-> "Gemini", name |-> ""],
     [head |-> "Mistral", name |-> ""],
     [head |-> "gemini", name |-> "gemini-2.5-pro"]}

\* line 54: model_identifier.split("/")[0].capitalize()
Capitalize(head) == IF head = "gemini" THEN "Gemini" ELSE head

\* lines 53-57: the provider the constructor sets
ProviderOf(model_identifier) ==
    IF model_identifier.name # "" THEN Capitalize(model_identifier.head) ELSE model_identifier.head

\* lines 53-57: the model the constructor sets, "" for None
ModelOf(model_identifier) ==
    IF model_identifier.name # ""
    THEN IF model_identifier.head = "gemini" /\ model_identifier.name = "gemini-2.5-pro"
         THEN "gemini/gemini-2.5-pro" ELSE "other"
    ELSE ""

\* lines 70-74: the model lists of the known providers of llm_order, in order
RECURSIVE ProvidersModels(_)
ProvidersModels(order) ==
    IF order = <<>> THEN <<>>
    ELSE (IF Head(order) \in DOMAIN LLM_PROVIDER_LIST
          THEN <<LLM_PROVIDER_LIST[Head(order)]>> ELSE <<>>)
         \o ProvidersModels(Tail(order))

\* line 78-80: the i-th model of every list that has one, in the order of the lists
RECURSIVE Round(_, _)
Round(providers_models, i) ==
    IF providers_models = <<>> THEN <<>>
    ELSE (IF i <= Len(Head(providers_models)) THEN <<Head(providers_models)[i]>> ELSE <<>>)
         \o Round(Tail(providers_models), i)

\* the length of the longest list
RECURSIVE Longest(_)
Longest(providers_models) ==
    IF providers_models = <<>> THEN 0
    ELSE LET n == Len(Head(providers_models))
             r == Longest(Tail(providers_models))
         IN IF n > r THEN n ELSE r

\* line 77: itertools.zip_longest(*providers_models), from round i on
RECURSIVE Interleave(_, _)
Interleave(providers_models, i) ==
    IF i > Longest(providers_models) THEN <<>>
    ELSE Round(providers_models, i) \o Interleave(providers_models, i + 1)

\* lines 59-84: LLM._get_model_list
_get_model_list ==
    IF model # "" THEN <<model>>
    ELSE IF llm_order # <<>> THEN Interleave(ProvidersModels(llm_order), 1)
    ELSE IF provider # "" /\ provider \in DOMAIN LLM_PROVIDER_LIST THEN LLM_PROVIDER_LIST[provider]
    ELSE <<>>

\* What an attempt of _try_model_completion meets:
\*   precall        : prompt.to_messages or token_counter raises (lines 109-111)
\*   rate_limit     : litellm.completion raises RateLimitError
\*   context_window : litellm.completion raises ContextWindowExceededError
\*   server_error   : litellm.completion raises InternalServerError
\*   other_error    : litellm.completion raises another exception
\*   empty          : the response has no choice or no content
\*   content        : the response has content
AttemptOutcomes ==
    {"precall", "rate_limit", "context_window", "server_error", "other_error", "empty", "content"}

\* lines 113-134: the exceptions the try statement of an attempt catches
CaughtOutcomes == {"rate_limit", "context_window", "server_error", "other_error"}

\* lines 86-149: what _try_model_completion does on an outcome: "raise" when an
\* exception leaves it, "none" when it returns None, "content" when it returns
\* the content of the response
_try_model_completion(outcome) ==
    IF outcome = "precall" THEN "raise"
    ELSE IF outcome \in CaughtOutcomes THEN "none"
    ELSE IF outcome = "empty" THEN "none"
    ELSE "content"

\* LLM.__init__(model_identifier, llm_order), lines 51-57
InitLLM ==
    /\ \E model_identifier \in ModelIdentifiers :
        /\ model = ModelOf(model_identifier)
        /\ provider = ProviderOf(model_identifier)
    /\ llm_order \in SeqsUpTo(ProviderNames, MaxOrder)
    /\ model_list = <<>>
    /\ attempts = <<>>
    /\ result = NotReturned
    /\ pc = "ready"
    /\ error = "none"
    /\ log = {}
    /\ IdleGraph
    /\ IdleExtract
    /\ IdlePass
    /\ IdleResolve

\* lines 164-167: the model list is computed; an empty list ends the call
CallCompletion ==
    /\ pc = "ready"
    /\ model_list' = _get_model_list
    /\ IF _get_model_list = <<>>
       THEN /\ pc' = "returned"
            /\ result' = "None"
            /\ log' = log \cup {<<"error", "no models", "">>}
       ELSE /\ pc' = "trying"
            /\ UNCHANGED <<result, log>>
    /\ UNCHANGED <<error, sorted_modules, module_paths, gvars, xvars, pvars, rvars,
                   model, provider, llm_order, attempts>>

\* the loop of line 169 is at its next model
Trying ==
    /\ pc = "trying"
    /\ Len(attempts) < Len(model_list)

\* lines 169-178: the attempt returns content, completion returns it
TrySucceeds ==
    /\ Trying
    /\ LET model_name == model_list[Len(attempts) + 1] IN
       \E outcome \in AttemptOutcomes :
          /\ _try_model_completion(outcome) = "content"
          /\ attempts' = Append(attempts, <<model_name, outcome>>)
          /\ result' = <<"content", model_name>>
    /\ pc' = "returned"
    /\ UNCHANGED <<error, log, sorted_modules, module_paths, gvars, xvars, pvars, rvars,
                   model, provider, llm_order, model_list>>

\* lines 169-177: the attempt returns None, the loop goes on
TryFails ==
    /\ Trying
    /\ LET model_name == model_list[Len(attempts) + 1] IN
       \E outcome \in AttemptOutcomes :
          /\ _try_model_completion(outcome) = "none"
          /\ attempts' = Append(attempts, <<model_name, outcome>>)
    /\ UNCHANGED <<pc, error, log, result, sorted_modules, module_paths, gvars, xvars, pvars,
                   rvars, model, provider, llm_order, model_list>>

\* lines 109-111, outside the try statement: the exception leaves completion
TryRaises ==
    /\ Trying
    /\ LET model_name == model_list[Len(attempts) + 1] IN
       \E outcome \in AttemptOutcomes :
          /\ _try_model_completion(outcome) = "raise"
          /\ attempts' = Append(attempts, <<model_name, outcome>>)
    /\ pc' = "raised"
    /\ error' = "Exception"
    /\ UNCHANGED <<log, result, sorted_modules, module_paths, gvars, xvars, pvars, rvars,
                   model, provider, llm_order, model_list>>

\* lines 180-181: every model of the list was tried without a result
AllFailed ==
    /\ pc = "trying"
    /\ Len(attempts) = Len(model_list)
    /\ pc' = "returned"
    /\ result' = "None"
    /\ log' = log \cup {<<"error", "all failed", provider>>}
    /\ UNCHANGED <<error, sorted_modules, module_paths, gvars, xvars, pvars, rvars,
                   model, provider, llm_order, model_list, attempts>>

NextLLM == CallCompletion \/ TrySucceeds \/ TryFails \/ TryRaises \/ AllFailed

SpecLLM == InitLLM /\ [][NextLLM]_vars

\* ---------------------------------------------------------------- C17
\* C17: completion tries the models of its list one at a time in list order (the
\* given model alone when one was given), returns the content of the first
\* attempt that yields content and tries no model after it, returns None exactly
\* when the list is empty or every attempt failed, tries no model twice in one
\* call, and lets no exception of an attempt reach the caller.
C17_Original ==
    /\ model # "" /\ pc # "ready" => model_list = <<model>>
    /\ Len(attempts) <= Len(model_list)
    /\ \A k \in 1..Len(attempts) :
        /\ attempts[k][1] = model_list[k]
        /\ k < Len(attempts) => _try_model_completion(attempts[k][2]) = "none"
        /\ \A n \in 1..Len(attempts) : n # k => attempts[n][1] # attempts[k][1]
    /\ error = "none"
    /\ pc = "returned" =>
        /\ result # NotReturned
        /\ result # "None" =>
              /\ attempts # <<>>
              /\ attempts[Len(attempts)][2] = "content"
              /\ result = <<"content", attempts[Len(attempts)][1]>>
        /\ result = "None" <=>
              /\ Len(attempts) = Len(model_list)
              /\ \A k \in 1..Len(attempts) : _try_model_completion(attempts[k][2]) = "none"

====
